---- MODULE Spec2Model ----
(***************************************************************************)
(* Model of the ReComposer campaign engine (recompose_backend/app):        *)
(* campaign launch / pause, the due-send poller, the per-recipient         *)
(* dispatch task, the Brevo webhook, the reply detector and the follow-up  *)
(* canceller, all working on the shared campaign_recipients table.         *)
(*                                                                         *)
(* Every Celery task and every request handler opens its own database      *)
(* session.  An ORM object loaded by a session is a private snapshot: its  *)
(* attributes are not refreshed by later statements, and commit() flushes  *)
(* an UPDATE of exactly the attributes whose value differs from the        *)
(* loaded one.  A dispatch task is therefore modelled as a sequence of     *)
(* steps (load recipient, load campaign, provider call, commit) that other *)
(* tasks and handlers interleave with.                                     *)
(***************************************************************************)
EXTENDS Integers, Sequences, FiniteSets, Bags, TLC

----------------------------------------------------------------------------
(* Bounds of the model *)

NumRecipients == 1      \* contacts enrolled in the campaign
MaxUnits      == 2      \* Celery task messages queued or running at a time
MaxSends      == 2      \* provider send calls made in one behaviour
MaxEvents     == 2      \* rows of the email_events table
MaxClock      == 24     \* last hour the clock is advanced to
TickHours     == 24     \* hours the modelled wall clock advances at a time
MaxContacts   == 2      \* contacts of the campaign in the HTTP specification
MaxRequests   == 2      \* requests and detector passes in progress at a time
MaxOpens      == 3      \* largest open_count reached
MaxSteps      == 3      \* steps in a creation request
MaxStepNumber == 3      \* largest step_number in a creation request
MaxCampaigns  == 2      \* campaigns created in one behaviour

(* Program constants *)

NULL         == -1      \* a NULL column (timestamp, message id, tracking id)
HoursPerDay  == 24      \* timedelta(days=d, hours=h) is d*24 + h hours

\* @celery_app.task(bind=True, max_retries=3) of send_campaign_email
max_retries  == 3

\* settings.STANDARD_PLAN_DAILY_LIMIT (default 20), PRO_PLAN_DAILY_LIMIT
\* (default 1000) and REWRITE_RATE_LIMIT_PER_MINUTE (default 20), any value
\* >= 1 is accepted; the model runs with small configured values.
STANDARD_PLAN_DAILY_LIMIT     == 2
PRO_PLAN_DAILY_LIMIT          == 3
REWRITE_RATE_LIMIT_PER_MINUTE == 2

\* settings.MAX_EMAILS_PER_MINUTE (default 50, any value >= 1 is accepted);
\* the model runs with a small configured value.
MAX_EMAILS_PER_MINUTE == 2

----------------------------------------------------------------------------
(* Enumerations *)

PENDING == "Pending"
SENT    == "Sent"
REPLIED == "Replied"
BOUNCED == "Bounced"
FAILED  == "Failed"
SKIPPED == "Skipped"
RecipientStatus == {PENDING, SENT, REPLIED, BOUNCED, FAILED, SKIPPED}

DRAFT     == "Draft"
RUNNING   == "Running"
PAUSED    == "Paused"
COMPLETED == "Completed"
CANCELLED == "Cancelled"
CampaignStatus == {DRAFT, RUNNING, PAUSED, COMPLETED, CANCELLED}

EmailProvider == {"gmail", "outlook", "smtp", "brevo"}

EventType == {"OPEN", "REPLY"}

\* Event names of the Brevo webhook's docstring
BrevoEvents == {"request", "delivered", "hard_bounce", "soft_bounce", "blocked",
                "spam", "invalid_email", "deferred", "opened", "clicked",
                "unsubscribed", "complaint"}

\* The delivery-status events the provider posts in the behaviours of Spec
DeliveryEvents == {"delivered", "hard_bounce", "blocked", "unsubscribed"}

CampaignIds  == {1}
UserIds      == {1, 2}
MessageIds   == 1..MaxSends

\* Texts written to campaign_recipients.error_message
NoError        == "none"
ErrNoAccount   == "No active email account configured"
ErrSend        == "provider error"
ErrNotImpl     == "API integration not yet implemented"
ErrUnsupported == "Unsupported email provider"

VARIABLES
    settings,        \* the application settings read by the handlers
    requests,        \* bag of HTTP requests in progress (open pixel, rewrite)
    response,        \* HTTP response of the request answered by the last step
    now,             \* wall clock, in hours
    campaigns,       \* campaigns table: id -> [user_id, status, launched_at, paused_at, name]
    campaign_emails, \* campaign_emails table: campaign id -> sequence of steps
    email_accounts,  \* email_accounts table, a set of rows
    recipients,      \* campaign_recipients table: id -> row
    email_events,    \* email_events table, a bag of rows
    units,           \* bag of Celery task messages (queued or running)
    provider_log,    \* provider send calls: recipient -> step -> [calls, ok]
    rewrite_logs     \* rewrite_logs table, a bag of rows [user_id, created_at]

\* ids of the campaign_recipients rows (rows are created by create_campaign
\* and deleted with their campaign or their contact)
RecipientIds == DOMAIN recipients

vars == <<settings, requests, response, now, campaigns, campaign_emails, email_accounts, recipients,
          email_events, units, provider_log, rewrite_logs>>

----------------------------------------------------------------------------
(* Campaign definitions accepted by create_campaign *)

\* EmailStepCreate.delay_days / delay_hours values the model draws from
DelayChoices == { [delay_days |-> 0, delay_hours |-> 0],
                  [delay_days |-> 1, delay_hours |-> 0] }

\* CampaignCreate.email_steps after validate_steps: step numbers 1..n, sorted
OneStep == << [step_number |-> 1, delay_days |-> 0, delay_hours |-> 0] >>

StepConfigs ==
    { OneStep }
    \cup
    { << [step_number |-> 1, delay_days |-> d[1].delay_days,
          delay_hours |-> d[1].delay_hours],
         [step_number |-> 2, delay_days |-> d[2].delay_days,
          delay_hours |-> d[2].delay_hours] >>
      : d \in {e \in DelayChoices \X DelayChoices : e[1] # e[2]} }

\* email_accounts rows of user 1, the owner of campaign 1
SmtpDefault  == [user_id |-> 1, provider |-> "smtp",  is_active |-> TRUE, is_default |-> TRUE]
GmailActive  == [user_id |-> 1, provider |-> "gmail", is_active |-> TRUE, is_default |-> FALSE]
AccountConfigs == { {}, {SmtpDefault, GmailActive} }

\* A second active default account of user 1 (no constraint of the
\* email_accounts table excludes it), and the default account of user 2
OutlookActive  == [user_id |-> 1, provider |-> "outlook", is_active |-> TRUE, is_default |-> FALSE]
GmailOfUser2   == [user_id |-> 2, provider |-> "gmail",   is_active |-> TRUE, is_default |-> FALSE]
OutlookDefault == [user_id |-> 1, provider |-> "outlook", is_active |-> TRUE, is_default |-> TRUE]
GmailDefault   == [user_id |-> 1, provider |-> "gmail",   is_active |-> TRUE, is_default |-> TRUE]
BrevoDefault   == [user_id |-> 1, provider |-> "brevo",   is_active |-> TRUE, is_default |-> TRUE]
SmtpOfUser2    == [user_id |-> 2, provider |-> "smtp",    is_active |-> TRUE, is_default |-> TRUE]

\* CampaignRecipient(...) as create_campaign inserts it (column defaults)
NewRecipient(campaign_id, contact_id, tracking_id) ==
    [ campaign_id       |-> campaign_id,
      contact_id        |-> contact_id,
      current_step      |-> 0,
      status            |-> PENDING,
      last_sent_at      |-> NULL,
      next_send_at      |-> NULL,
      tracking_id       |-> tracking_id,
      sent_message_id   |-> NULL,
      open_count        |-> 0,
      reply_detected_at |-> NULL,
      error_message     |-> NoError ]

\* A tracking id derived from the campaign instead of a fresh uuid4 (mutant)
generate_tracking_id_PerCampaign(row, fresh) ==
    IF row.tracking_id = NULL THEN [row EXCEPT !.tracking_id = row.campaign_id] ELSE row

\* A tracking id that is drawn again at every call (mutant)
generate_tracking_id_Always(row, fresh) == [row EXCEPT !.tracking_id = fresh]

\* CampaignRecipient.generate_tracking_id: a fresh uuid4 only when absent
generate_tracking_id(row, fresh) ==
    IF row.tracking_id = NULL THEN [row EXCEPT !.tracking_id = fresh] ELSE row

\* uuid.uuid4() as launch_campaign would draw it for row r: a value that no
\* other draw returns (the draw at creation is r itself)
uuid4_at_launch(r) == 0 - r - 1

EmptyLog == [r \in RecipientIds |-> [s \in 1..2 |-> [calls |-> 0, ok |-> 0]]]

\* An HTTP response: status code, body (detail text, redirect location or
\* image) and the count a launch reports
Response(status, body, count) == [status |-> status, body |-> body, count |-> count]

\* The HTTP exchange a step completes: the handler, what it was asked for,
\* and its response.  A step of a background task completes none.
Exchange(handler, event, tracking_id, resp) ==
    [handler |-> handler, event |-> event, tracking_id |-> tracking_id,
     status |-> resp.status, body |-> resp.body, count |-> resp.count]

NoExchange == Exchange("", "", NULL, Response(0, "", 0))

\* settings.BREVO_WEBHOOK_SECRET: not configured, or a shared secret
WebhookSecrets == {NULL, 7}

\* The database after create_campaign with n contacts: one Draft campaign of
\* user 1 with its steps and one recipient row per contact.
create_campaign(members, steps, accounts, secrets) ==
    /\ settings \in [BREVO_WEBHOOK_SECRET : secrets]
    /\ requests = EmptyBag
    /\ response = NoExchange
    /\ now = 0
    /\ campaigns = [c \in CampaignIds |->
                      [user_id |-> c, status |-> DRAFT,
                       launched_at |-> NULL, paused_at |-> NULL,
                       name |-> "campaign"]]
    /\ campaign_emails \in [CampaignIds -> steps]
    /\ email_accounts \in accounts
    /\ \E n \in members :
          recipients = [r \in 1..n |->
                          generate_tracking_id(NewRecipient(1, r, NULL), r)]
    /\ email_events = EmptyBag
    /\ units = EmptyBag
    /\ provider_log = EmptyLog
    /\ rewrite_logs = EmptyBag

Init == create_campaign({NumRecipients}, StepConfigs, AccountConfigs, {NULL})

----------------------------------------------------------------------------
(* routers/campaigns.py: CampaignCreate and POST /api/campaigns *)

\* email_steps of a request body: any list of steps, numbered anyhow
StepLists ==
    UNION { [1..n -> {[step_number |-> k, delay_days |-> 0, delay_hours |-> 0] :
                         k \in 0..MaxStepNumber}] : n \in 0..MaxSteps }

\* contact_ids of a request body: the user's contacts are 1..MaxContacts, the
\* contact after them is another user's
ContactIdLists == SUBSET (1..(MaxContacts + 1))

\* Field(..., ge=1) on step_number and Field(..., min_length=1) on both lists
FieldsValid(v, contact_ids) ==
    /\ Len(v) >= 1
    /\ contact_ids # {}
    /\ \A i \in 1..Len(v) : v[i].step_number >= 1

\* sorted(v, key=lambda x: x.step_number): a stable insertion sort
sorted(v) ==
    LET RECURSIVE insert(_, _)
        insert(x, w) == IF w = << >> THEN <<x>>
                        ELSE IF Head(w).step_number <= x.step_number
                        THEN <<Head(w)>> \o insert(x, Tail(w))
                        ELSE <<x>> \o w
        RECURSIVE sort(_, _)
        sort(i, acc) == IF i > Len(v) THEN acc ELSE sort(i + 1, insert(v[i], acc))
    IN sort(1, << >>)

\* A validator without the third test (mutant)
validate_steps_NoSequentialTest(v) ==
    LET step_numbers == {v[i].step_number : i \in 1..Len(v)}
    IN IF Len(v) # Cardinality(step_numbers)
       THEN [error |-> "Step numbers must be unique", steps |-> << >>]
       ELSE IF (CHOOSE k \in step_numbers : \A j \in step_numbers : k <= j) # 1
       THEN [error |-> "Step numbers must start from 1", steps |-> << >>]
       ELSE [error |-> "", steps |-> sorted(v)]

\* CampaignCreate.validate_steps, on a list that passed the field constraints
validate_steps(v) ==
    LET step_numbers == {v[i].step_number : i \in 1..Len(v)}
    IN IF Len(v) # Cardinality(step_numbers)
       THEN [error |-> "Step numbers must be unique", steps |-> << >>]
       ELSE IF (CHOOSE k \in step_numbers : \A j \in step_numbers : k <= j) # 1
       THEN [error |-> "Step numbers must start from 1", steps |-> << >>]
       ELSE IF (CHOOSE k \in step_numbers : \A j \in step_numbers : k >= j) # Len(v)
       THEN [error |-> "Step numbers must be sequential", steps |-> << >>]
       ELSE [error |-> "", steps |-> sorted(v)]

\* The refusal of a creation request, status 0 if none: 422 from the request
\* model, 400 from the contact check of lines 193-206
CreateRefusal(v, contact_ids) ==
    IF ~FieldsValid(v, contact_ids)
    THEN Response(422, "Validation error", 0)
    ELSE IF validate_steps(v).error # ""
    THEN Response(422, validate_steps(v).error, 0)
    ELSE IF ~(contact_ids \subseteq 1..MaxContacts)
    THEN Response(400, "One or more contacts not found or do not belong to user", 0)
    ELSE Response(0, "", 0)

\* lines 208-241: the campaign, its steps and one recipient per contact
InsertCampaign(steps, contact_ids) ==
    LET cid  == Cardinality(DOMAIN campaigns) + 1
        base == Cardinality(RecipientIds)
        nth(k) == CHOOSE c \in contact_ids : Cardinality({d \in contact_ids : d <= c}) = k
    IN /\ campaigns' = [c \in DOMAIN campaigns \cup {cid} |->
                          IF c = cid
                          THEN [user_id |-> 1, status |-> DRAFT, launched_at |-> NULL,
                                paused_at |-> NULL, name |-> "campaign"]
                          ELSE campaigns[c]]
       /\ campaign_emails' = [c \in DOMAIN campaigns \cup {cid} |->
                                IF c = cid THEN steps ELSE campaign_emails[c]]
       /\ recipients' = [r \in 1..(base + Cardinality(contact_ids)) |->
                           IF r <= base THEN recipients[r]
                           ELSE generate_tracking_id(NewRecipient(cid, nth(r - base), NULL), r)]
       /\ provider_log' = [r \in 1..(base + Cardinality(contact_ids)) |->
                             IF r <= base THEN provider_log[r]
                             ELSE [s \in 1..2 |-> [calls |-> 0, ok |-> 0]]]

\* POST /api/campaigns
post_campaign(v, contact_ids) ==
    /\ Cardinality(DOMAIN campaigns) < MaxCampaigns
    /\ IF CreateRefusal(v, contact_ids).status # 0
       THEN /\ response' = Exchange("create_campaign", "", NULL, CreateRefusal(v, contact_ids))
            /\ UNCHANGED <<campaigns, campaign_emails, recipients, provider_log>>
       ELSE /\ InsertCampaign(validate_steps(v).steps, contact_ids)
            /\ response' = Exchange("create_campaign", "", NULL,
                              Response(201, "", Cardinality(contact_ids)))
    /\ UNCHANGED <<settings, rewrite_logs, requests, now, email_accounts, email_events, units>>

\* The database of a user with contacts and no campaign
NoCampaigns ==
    /\ settings = [BREVO_WEBHOOK_SECRET |-> NULL]
    /\ requests = EmptyBag
    /\ response = NoExchange
    /\ now = 0
    /\ campaigns = << >>
    /\ campaign_emails = << >>
    /\ email_accounts = {SmtpDefault}
    /\ recipients = << >>
    /\ email_events = EmptyBag
    /\ units = EmptyBag
    /\ provider_log = << >>
    /\ rewrite_logs = EmptyBag

----------------------------------------------------------------------------
(* Helpers *)

\* timedelta(days=..., hours=...)
timedelta(days, hours) == days * HoursPerDay + hours

\* The attributes of a loaded CampaignRecipient a dispatch task reads later
Loaded(row) ==
    [ campaign_id   |-> row.campaign_id,
      current_step  |-> row.current_step,
      status        |-> row.status,
      error_message |-> row.error_message ]

\* Session.commit(): UPDATE of the assigned attributes whose value differs
\* from the loaded one.  Timestamps from datetime.now() and provider message
\* ids are new values, so those attributes are always written.
Flush(row, loaded, assigned) ==
    [f \in DOMAIN row |->
        IF f \in DOMAIN assigned
           /\ (f \notin DOMAIN loaded \/ assigned[f] # loaded[f])
        THEN assigned[f] ELSE row[f]]

\* Celery's task.delay(recipient_id): a new message on the queue
NewUnit(kind, rid) ==
    [ kind |-> kind, recipient_id |-> rid, pc |-> "queued",
      recipient |-> Loaded(NewRecipient(0, 0, NULL)), next_step |-> 0, delay |-> 0,
      send_result |-> [success |-> FALSE, message_id |-> NULL, error |-> NoError] ]

\* One message of the given task ("send": send_campaign_email, "cancel":
\* cancel_followups_for_contact) for every recipient id in S
Enqueue(q, S, kind) ==
    LET RECURSIVE add(_, _)
        add(b, T) == IF T = {} THEN b
                     ELSE LET x == CHOOSE y \in T : TRUE
                          IN add(b (+) SetToBag({NewUnit(kind, x)}), T \ {x})
    IN add(q, S)

Replace(u, v) == (units (-) SetToBag({u})) (+) SetToBag({v})
Finish(u)     == units (-) SetToBag({u})

QueueRoom(n) == BagCardinality(units) + n <= MaxUnits

TotalCalls ==
    LET RECURSIVE sum(_)
        sum(S) == IF S = {} THEN 0
                  ELSE LET r == CHOOSE x \in S : TRUE
                       IN provider_log[r][1].calls + provider_log[r][2].calls
                          + sum(S \ {r})
    IN sum(DOMAIN provider_log)

TotalOk ==
    LET RECURSIVE sum(_)
        sum(S) == IF S = {} THEN 0
                  ELSE LET r == CHOOSE x \in S : TRUE
                       IN provider_log[r][1].ok + provider_log[r][2].ok
                          + sum(S \ {r})
    IN sum(DOMAIN provider_log)

Min(a, b) == IF a <= b THEN a ELSE b

\* Number of messages of bag b that are in the set S
CountIn(b, S) ==
    LET T == BagToSet(b) \cap S
    IN BagCardinality([u \in T |-> b[u]])

----------------------------------------------------------------------------
(* Request handlers of routers/campaigns.py *)

\* The checks of launch_campaign without the Draft check (mutant)
LaunchRefusal_AnyStatus(cid, plan) ==
    IF plan # "pro"
    THEN Response(403, "Campaign launching requires Pro plan", 0)
    ELSE IF Len(campaign_emails[cid]) = 0
    THEN Response(400, "Campaign must have at least one email step", 0)
    ELSE Response(0, "", 0)

\* lines 435-456: the HTTPException launch_campaign raises, status 0 if none
LaunchRefusal(cid, plan) ==
    IF plan # "pro"
    THEN Response(403, "Campaign launching requires Pro plan", 0)
    ELSE IF campaigns[cid].status # DRAFT
    THEN Response(400, "Can only launch campaigns in Draft status", 0)
    ELSE IF Len(campaign_emails[cid]) = 0
    THEN Response(400, "Campaign must have at least one email step", 0)
    ELSE Response(0, "", 0)

\* POST /{campaign_id}/launch
launch_campaign(cid, plan) ==
    /\ IF LaunchRefusal(cid, plan).status # 0
       THEN /\ response' = Exchange("launch_campaign", "", NULL, LaunchRefusal(cid, plan))
            /\ UNCHANGED <<campaigns, recipients, units>>
       ELSE LET members == {r \in RecipientIds : recipients[r].campaign_id = cid}
            IN \E refused \in SUBSET members :
               \* lines 478-482: a delay() that raises is logged and skipped
               /\ QueueRoom(Cardinality(members \ refused))
               /\ campaigns' = [campaigns EXCEPT ![cid].status = RUNNING,
                                                 ![cid].launched_at = now]
               /\ recipients' = [r \in RecipientIds |->
                                   IF r \in members
                                   THEN generate_tracking_id(
                                            [recipients[r] EXCEPT !.status = PENDING,
                                                                  !.next_send_at = now],
                                            uuid4_at_launch(r))
                                   ELSE recipients[r]]
               /\ units' = Enqueue(units, members \ refused, "send")
               /\ response' = Exchange("launch_campaign", "", NULL,
                                 Response(200, "Campaign launched successfully",
                                          Cardinality(members)))
    /\ UNCHANGED <<settings, rewrite_logs, requests, now, campaign_emails, email_accounts,
                   email_events, provider_log>>

\* The same handler as the steps two overlapping requests interleave at its
\* awaits.  Each request has its own session (get_db); nothing locks the
\* campaign row between the load and the commit.
\* lines 435-456: load the campaign, refuse or go on
LaunchCheckStatus(cid, plan) ==
    /\ IF LaunchRefusal(cid, plan).status # 0
       THEN /\ response' = Exchange("launch_campaign", "", NULL, LaunchRefusal(cid, plan))
            /\ UNCHANGED requests
       ELSE /\ BagCardinality(requests) < MaxRequests
            /\ requests' = requests (+) SetToBag({[campaign_id |-> cid, pc |-> "checked"]})
            /\ response' = NoExchange
    /\ UNCHANGED <<settings, rewrite_logs, now, campaigns, campaign_emails, email_accounts,
                   recipients, email_events, units, provider_log>>

\* lines 459-475: status, launched_at and the recipients' schedule, committed.
\* When the row was deleted since the load, the UPDATE matches nothing, the
\* flush raises and the request ends with the framework's 500.
LaunchCommitRunning(q) ==
    /\ BagIn(q, requests) /\ q.pc = "checked"
    /\ IF q.campaign_id \notin DOMAIN campaigns
       THEN /\ requests' = requests (-) SetToBag({q})
            /\ response' = Exchange("launch_campaign", "", NULL,
                              Response(500, "Internal Server Error", 0))
            /\ UNCHANGED <<campaigns, recipients>>
       ELSE /\ campaigns' = [campaigns EXCEPT ![q.campaign_id].status = RUNNING,
                                              ![q.campaign_id].launched_at = now]
            /\ recipients' = [r \in RecipientIds |->
                                IF recipients[r].campaign_id = q.campaign_id
                                THEN generate_tracking_id(
                                         [recipients[r] EXCEPT !.status = PENDING,
                                                               !.next_send_at = now],
                                         uuid4_at_launch(r))
                                ELSE recipients[r]]
            /\ requests' = (requests (-) SetToBag({q}))
                              (+) SetToBag({[q EXCEPT !.pc = "committed"]})
            /\ response' = NoExchange
    /\ UNCHANGED <<settings, rewrite_logs, now, campaign_emails, email_accounts,
                   email_events, units, provider_log>>

\* lines 478-493: one send_campaign_email.delay per recipient, then the answer
LaunchQueueTasks(q) ==
    LET members == {r \in RecipientIds : recipients[r].campaign_id = q.campaign_id}
    IN /\ BagIn(q, requests) /\ q.pc = "committed"
       /\ \E refused \in SUBSET members :
             /\ QueueRoom(Cardinality(members \ refused))
             /\ units' = Enqueue(units, members \ refused, "send")
       /\ requests' = requests (-) SetToBag({q})
       /\ response' = Exchange("launch_campaign", "", NULL,
                         Response(200, "Campaign launched successfully",
                                  Cardinality(members)))
       /\ UNCHANGED <<settings, rewrite_logs, now, campaigns, campaign_emails,
                      email_accounts, recipients, email_events, provider_log>>

\* A pause that is never refused (mutant)
PauseRefusal_Never(cid) == Response(0, "", 0)

\* lines 508-512: the HTTPException pause_campaign raises, status 0 if none
PauseRefusal(cid) ==
    IF campaigns[cid].status # RUNNING
    THEN Response(400, "Can only pause running campaigns", 0)
    ELSE Response(0, "", 0)

\* POST /{campaign_id}/pause
pause_campaign(cid) ==
    /\ IF PauseRefusal(cid).status # 0
       THEN /\ response' = Exchange("pause_campaign", "", NULL, PauseRefusal(cid))
            /\ UNCHANGED campaigns
       ELSE /\ campaigns' = [campaigns EXCEPT ![cid].status = PAUSED,
                                              ![cid].paused_at = now]
            /\ response' = Exchange("pause_campaign", "", NULL,
                              Response(200, "Campaign paused successfully", 0))
    /\ UNCHANGED <<settings, rewrite_logs, requests, now, campaign_emails, email_accounts,
                   recipients, email_events, units, provider_log>>

\* cascade="all, delete-orphan" on campaign_recipients and on email_events:
\* the recipient rows in gone are deleted with their parent, and their events
\* with them
DeleteRecipients(gone) ==
    /\ recipients' = [r \in RecipientIds \ gone |-> recipients[r]]
    /\ email_events' =
          LET kept == {e \in BagToSet(email_events) : e.campaign_recipient_id \notin gone}
          IN [e \in kept |-> email_events[e]]

\* lines 410-414: the HTTPException delete_campaign raises, status 0 if none
DeleteRefusal(cid) ==
    IF cid \notin DOMAIN campaigns
    THEN Response(404, "Campaign not found", 0)
    ELSE IF campaigns[cid].status \notin {DRAFT, CANCELLED}
    THEN Response(400, "Can only delete campaigns in Draft or Cancelled status", 0)
    ELSE Response(0, "", 0)

\* DELETE /{campaign_id}
delete_campaign(cid) ==
    /\ IF DeleteRefusal(cid).status # 0
       THEN /\ response' = Exchange("delete_campaign", "", NULL, DeleteRefusal(cid))
            /\ UNCHANGED <<campaigns, campaign_emails, recipients, email_events>>
       ELSE /\ campaigns' = [c \in DOMAIN campaigns \ {cid} |-> campaigns[c]]
            /\ campaign_emails' = [c \in DOMAIN campaign_emails \ {cid} |-> campaign_emails[c]]
            /\ DeleteRecipients({r \in RecipientIds : recipients[r].campaign_id = cid})
            /\ response' = Exchange("delete_campaign", "", NULL, Response(204, "", 0))
    /\ UNCHANGED <<settings, rewrite_logs, requests, now, email_accounts, units, provider_log>>

\* lines 375-381: the HTTPException update_campaign raises, status 0 if none
UpdateRefusal(cid) ==
    IF cid \notin DOMAIN campaigns
    THEN Response(404, "Campaign not found", 0)
    ELSE IF campaigns[cid].status # DRAFT
    THEN Response(400, "Can only update campaigns in Draft status", 0)
    ELSE Response(0, "", 0)

\* PUT /{campaign_id}: the name is replaced (the description likewise)
update_campaign(cid, name) ==
    /\ IF UpdateRefusal(cid).status # 0
       THEN /\ response' = Exchange("update_campaign", "", NULL, UpdateRefusal(cid))
            /\ UNCHANGED campaigns
       ELSE /\ campaigns' = [campaigns EXCEPT ![cid].name = name]
            /\ response' = Exchange("update_campaign", "", NULL, Response(200, name, 0))
    /\ UNCHANGED <<settings, rewrite_logs, requests, now, campaign_emails, email_accounts,
                   recipients, email_events, units, provider_log>>

\* routers/contacts.py, check_contact_ownership: the contacts of the model are
\* those a recipient row refers to
ContactRows(contact_id) == {r \in RecipientIds : recipients[r].contact_id = contact_id}

\* DELETE /api/contacts/{contact_id}
delete_contact(contact_id) ==
    /\ IF ContactRows(contact_id) = {}
       THEN /\ response' = Exchange("delete_contact", "", NULL,
                              Response(404, "Contact not found", 0))
            /\ UNCHANGED <<recipients, email_events>>
       ELSE /\ DeleteRecipients(ContactRows(contact_id))
            /\ response' = Exchange("delete_contact", "", NULL, Response(204, "", 0))
    /\ UNCHANGED <<settings, rewrite_logs, requests, now, campaigns, campaign_emails, email_accounts,
                   units, provider_log>>

\* The wall clock advances
Tick ==
    /\ now + TickHours <= MaxClock
    /\ now' = now + TickHours
    /\ response' = NoExchange
    /\ UNCHANGED <<settings, rewrite_logs, requests, campaigns, campaign_emails, email_accounts,
                   recipients, email_events, units, provider_log>>

----------------------------------------------------------------------------
(* services/email/email_sender.py *)

\* services/email/brevo_service.py, send_via_brevo: the transactional API (or
\* the SMTP relay) accepts the message and names it, or the call fails
send_via_brevo(outcome, fresh_id) ==
    IF outcome = "ok"
    THEN [success |-> TRUE,  message_id |-> fresh_id, error |-> NoError]
    ELSE [success |-> FALSE, message_id |-> NULL,     error |-> ErrSend]

\* send_email: routes by account.provider; outcome is what the SMTP server
\* answers.  The Gmail and Outlook senders are stubs that always fail, and a
\* provider without a branch raises ValueError, which is returned as a failure.
send_email(account, outcome, fresh_id) ==
    IF account.provider = "smtp"
    THEN IF outcome = "ok"
         THEN [success |-> TRUE,  message_id |-> fresh_id, error |-> NoError]
         ELSE [success |-> FALSE, message_id |-> NULL,     error |-> ErrSend]
    ELSE IF account.provider \in {"gmail", "outlook"}
    THEN [success |-> FALSE, message_id |-> NULL, error |-> ErrNotImpl]
    ELSE [success |-> FALSE, message_id |-> NULL, error |-> ErrUnsupported]

----------------------------------------------------------------------------
(* tasks/email_tasks.py: send_campaign_email, one Celery task per message *)

\* "Check if already sent or replied"
AlreadySentOrReplied(status) == status \in {SENT, REPLIED}

\* A campaign check that lets a Paused campaign through (mutant of the check)
CampaignIsRunning_OrPaused(campaign) == campaign.status \in {RUNNING, PAUSED}

\* "Get campaign and check status"
CampaignIsRunning(campaign) == campaign.status = RUNNING

\* select(CampaignEmail).where(campaign_id == ..., step_number == next_step)
StepsNumbered(cid, n) ==
    {i \in 1..Len(campaign_emails[cid]) : campaign_emails[cid][i].step_number = n}

\* select(EmailAccount).where(user_id == ..., is_active, is_default)
DefaultAccounts(user_id) ==
    {a \in email_accounts : a.user_id = user_id /\ a.is_active /\ a.is_default}

\* "Schedule next step": the timedelta added to now after step next_step is sent
ScheduleDelay(cid, next_step) ==
    LET email_step == campaign_emails[cid][CHOOSE i \in StepsNumbered(cid, next_step) : TRUE]
    IN timedelta(email_step.delay_days, email_step.delay_hours)

\* lines 131-140: the attributes assigned after a successful send
AfterSendSuccess(next_step, message_id, delay, t) ==
    [ status          |-> SENT,
      current_step    |-> next_step,
      last_sent_at    |-> t,
      sent_message_id |-> message_id,
      next_send_at    |-> t + delay ]

\* lines 103-105, 145-148: the attributes assigned after a failed send
AfterSendFailure(error) == [status |-> FAILED, error_message |-> error]

\* lines 87-89: the attribute assigned when no step is left
AfterNoMoreSteps == [status |-> SKIPPED]

\* lines 46-59: load the recipient, skip if already sent or replied
DispatchLoad(u) ==
    /\ BagIn(u, units) /\ u.kind = "send" /\ u.pc = "queued"
    /\ LET row == recipients[u.recipient_id]
       IN units' = IF u.recipient_id \notin RecipientIds
                   THEN Finish(u)      \* lines 52-54: "Recipient not found"
                   ELSE IF AlreadySentOrReplied(row.status)
                   THEN Finish(u)
                   ELSE Replace(u, [u EXCEPT !.pc = "loaded", !.recipient = Loaded(row)])
    /\ response' = NoExchange
    /\ UNCHANGED <<settings, rewrite_logs, requests, now, campaigns, campaign_emails, email_accounts, recipients,
                   email_events, provider_log>>

\* lines 61-69: load the campaign, stop unless it is Running
DispatchCheckCampaign(u) ==
    /\ BagIn(u, units) /\ u.kind = "send" /\ u.pc = "loaded"
    /\ units' = IF CampaignIsRunning(campaigns[u.recipient.campaign_id])
                THEN Replace(u, [u EXCEPT !.pc = "checked"])
                ELSE Finish(u)
    /\ response' = NoExchange
    /\ UNCHANGED <<settings, rewrite_logs, requests, now, campaigns, campaign_emails, email_accounts, recipients,
                   email_events, provider_log>>

\* lines 71-129: look up the step and the account, call the provider
DispatchSend(u, outcome) ==
    /\ BagIn(u, units) /\ u.kind = "send" /\ u.pc = "checked"
    /\ LET rid       == u.recipient_id
           cid       == u.recipient.campaign_id
           next_step == u.recipient.current_step + 1
       IN IF rid \notin RecipientIds
          THEN \* lines 72-75: the contact went with the row, scalar_one raises
               /\ units' = Finish(u)
               /\ UNCHANGED <<recipients, provider_log>>
          ELSE IF StepsNumbered(cid, next_step) = {}
          THEN \* no more steps, mark as completed
               /\ recipients' = [recipients EXCEPT ![rid] =
                      Flush(@, u.recipient, AfterNoMoreSteps)]
               /\ units' = Finish(u)
               /\ UNCHANGED provider_log
          ELSE IF DefaultAccounts(campaigns[cid].user_id) = {}
          THEN /\ recipients' = [recipients EXCEPT ![rid] =
                      Flush(@, u.recipient, AfterSendFailure(ErrNoAccount))]
               /\ units' = Finish(u)
               /\ UNCHANGED provider_log
          ELSE IF Cardinality(DefaultAccounts(campaigns[cid].user_id)) > 1
          THEN \* scalar_one_or_none raises: rollback, the task fails
               /\ units' = Finish(u)
               /\ UNCHANGED <<recipients, provider_log>>
          ELSE /\ TotalCalls < MaxSends
               /\ LET account == CHOOSE a \in DefaultAccounts(campaigns[cid].user_id) : TRUE
                      result  == send_email(account, outcome, TotalOk + 1)
                  IN /\ provider_log' = [provider_log EXCEPT
                            ![rid][next_step].calls = @ + 1,
                            ![rid][next_step].ok = @ + (IF result.success THEN 1 ELSE 0)]
                     /\ units' = Replace(u, [u EXCEPT
                            !.pc = "inflight",
                            !.next_step = next_step,
                            !.delay = ScheduleDelay(cid, next_step),
                            !.send_result = result])
               /\ UNCHANGED recipients
    /\ response' = NoExchange
    /\ UNCHANGED <<settings, rewrite_logs, requests, now, campaigns, campaign_emails, email_accounts, email_events>>

\* lines 131-151: record the provider's answer on the recipient and commit
DispatchCommit(u) ==
    /\ BagIn(u, units) /\ u.kind = "send" /\ u.pc = "inflight"
    /\ recipients' =
          IF u.recipient_id \notin RecipientIds
          THEN recipients     \* the UPDATE matches no row: rollback
          ELSE [recipients EXCEPT ![u.recipient_id] =
          IF u.send_result.success
          THEN Flush(@, u.recipient,
                     AfterSendSuccess(u.next_step, u.send_result.message_id,
                                      u.delay, now))
          ELSE Flush(@, u.recipient, AfterSendFailure(u.send_result.error))]
    /\ units' = Finish(u)
    /\ response' = NoExchange
    /\ UNCHANGED <<settings, rewrite_logs, requests, now, campaigns, campaign_emails, email_accounts, email_events,
                   provider_log>>

----------------------------------------------------------------------------
(* tasks/email_tasks.py: process_pending_emails, the due-send poller *)

\* A selection by next_send_at alone, whatever the status (mutant)
IsDue_AnyStatus(row, t) == row.next_send_at # NULL /\ row.next_send_at <= t

\* status == PENDING AND next_send_at <= now (a NULL next_send_at never matches)
IsDue(row, t) == row.status = PENDING /\ row.next_send_at # NULL /\ row.next_send_at <= t

DueRecipients == {r \in RecipientIds : IsDue(recipients[r], now)}

\* lines 176-185: the results the query may return, in no particular order
\* and cut at the limit
Batches ==
    {S \in SUBSET DueRecipients :
        Cardinality(S) = Min(Cardinality(DueRecipients), MAX_EMAILS_PER_MINUTE)}

\* A loop that gives up the batch when a delay() raises (mutant)
QueueBatch_AbortOnError(selected, refused) ==
    IF refused # {} THEN units ELSE Enqueue(units, selected, "send")

\* lines 190-200: one message per selected recipient; a delay() that raises
\* is logged and the loop goes on with the next recipient
QueueBatch(selected, refused) == Enqueue(units, selected \ refused, "send")

\* One tick of the poller; down is the set of recipients for which delay()
\* raises during the tick
ProcessPending(down) ==
    /\ DueRecipients # {}
    /\ \E S \in Batches :
          /\ QueueRoom(Cardinality(S \ down))
          /\ units' = QueueBatch(S, S \cap down)
    /\ response' = NoExchange
    /\ UNCHANGED <<settings, rewrite_logs, requests, now, campaigns, campaign_emails, email_accounts, recipients,
                   email_events, provider_log>>

process_pending_emails == \E down \in SUBSET RecipientIds : ProcessPending(down)

----------------------------------------------------------------------------
(* tasks/campaign_tasks.py: cancel_followups_for_contact *)

\* A cancellation that also takes the recipient out of the sequence (mutant)
ClearNextSend_AndSkip(row) == [row EXCEPT !.next_send_at = NULL, !.status = SKIPPED]

\* lines 53-55: "Clear next_send_at to prevent further sends"
ClearNextSend(row) == [row EXCEPT !.next_send_at = NULL]

cancel_followups_for_contact(u) ==
    /\ BagIn(u, units) /\ u.kind = "cancel" /\ u.pc = "queued"
    /\ recipients' = IF u.recipient_id \in RecipientIds
                     THEN [recipients EXCEPT ![u.recipient_id] = ClearNextSend(@)]
                     ELSE recipients     \* lines 58-60: "Recipient not found"
    /\ units' = Finish(u)
    /\ response' = NoExchange
    /\ UNCHANGED <<settings, rewrite_logs, requests, now, campaigns, campaign_emails, email_accounts, email_events,
                   provider_log>>

----------------------------------------------------------------------------
(* services/reply_detector.py *)

\* mark_recipient_as_replied: the recipient row after the call
mark_recipient_as_replied(row, t) ==
    IF row.status = REPLIED THEN row
    ELSE [row EXCEPT !.status = REPLIED,
                     !.reply_detected_at = t,
                     !.next_send_at = NULL]

NewEvent(rid, type, t) ==
    [campaign_recipient_id |-> rid, event_type |-> type, timestamp |-> t]

\* Accounts whose provider has a reply query (check_replies_gmail/_outlook);
\* SMTP "doesn't support reply detection".
ReplyCapable(accounts) == {a \in accounts : a.provider \in {"gmail", "outlook"}}

\* check_replies_gmail / check_replies_outlook: the message ids the provider
\* reports as replies.  The repository declares the two queries and leaves
\* their bodies open ("TODO: Implement Gmail API polling", a placeholder that
\* reports nothing); the model takes the reported ids from the mailbox, as the
\* reply detector's description has it ("asks each for message ids that are
\* replies since the last check").
check_replies_gmail(mailbox) == mailbox

\* tasks/email_tasks.py lines 221-227: "all users with running campaigns"
UsersWithRunningCampaigns ==
    {campaigns[c].user_id : c \in {d \in DOMAIN campaigns : campaigns[d].status = RUNNING}}

\* check_replies_for_user lines 35-68: the user's active accounts and the
\* recipients of the user's Running campaigns that are Sent
ActiveAccounts(user_id) == {a \in email_accounts : a.user_id = user_id /\ a.is_active}

SentRecipients(user_id) ==
    {r \in RecipientIds :
        /\ recipients[r].campaign_id \in DOMAIN campaigns
        /\ campaigns[recipients[r].campaign_id].user_id = user_id
        /\ campaigns[recipients[r].campaign_id].status = RUNNING
        /\ recipients[r].status = SENT}

\* check_replies_for_user lines 70-94: the recipients marked for the user.
\* An account in broken raises in its provider query; the error is logged
\* and the loop goes on with the next account.
RepliesForUser(user_id, mailbox, broken) ==
    IF ReplyCapable(ActiveAccounts(user_id)) \ broken = {} THEN {}
    ELSE {r \in SentRecipients(user_id) :
             /\ recipients[r].sent_message_id # NULL
             /\ recipients[r].sent_message_id \in check_replies_gmail(mailbox)}

\* check_replies -> check_replies_for_user for every user with a Running
\* campaign.  mailbox is the set of message ids that were replied to;
\* check_replies_for_user raises for the users in broken_users (the error is
\* logged and the loop goes on with the next user) and the provider query
\* raises for the accounts in broken_accounts.
check_replies(mailbox, broken_users, broken_accounts) ==
    LET users   == UsersWithRunningCampaigns
        matched == UNION {RepliesForUser(u, mailbox, broken_accounts) :
                             u \in users \ broken_users}
    IN /\ \E u \in users : ActiveAccounts(u) # {} /\ SentRecipients(u) # {}
       /\ QueueRoom(Cardinality(matched))
       /\ BagCardinality(email_events) + Cardinality(matched) <= MaxEvents
       /\ recipients' = [r \in RecipientIds |->
                           IF r \in matched
                           THEN mark_recipient_as_replied(recipients[r], now)
                           ELSE recipients[r]]
       /\ email_events' = email_events (+)
                            SetToBag({NewEvent(r, "REPLY", now) : r \in matched})
       /\ units' = Enqueue(units, matched, "cancel")
       /\ response' = NoExchange
       /\ UNCHANGED <<settings, rewrite_logs, requests, now, campaigns, campaign_emails, email_accounts, provider_log>>

\* One pass of check_replies_for_user as the steps that other passes and
\* tasks interleave with.  lines 35-83: the pass loads the Sent recipients
\* of the user's Running campaigns and asks the accounts for replies
ReplyPassQuery(user_id, mailbox) ==
    LET matched == RepliesForUser(user_id, mailbox, {})
    IN /\ user_id \in UsersWithRunningCampaigns
       /\ matched # {}
       /\ BagCardinality(requests) < MaxRequests
       /\ requests' = requests (+) SetToBag({
             [pc |-> "queried", rows |-> [r \in matched |-> recipients[r]]] })
       /\ response' = NoExchange
       /\ UNCHANGED <<settings, rewrite_logs, now, campaigns, campaign_emails, email_accounts,
                      recipients, email_events, units, provider_log>>

\* lines 88-96 and 105-137: every matched recipient is marked from the row the
\* pass holds (the select by id returns the object the session has loaded,
\* with the attributes it loaded), then the pass commits
ReplyPassMark(q) ==
    LET matched == DOMAIN q.rows \cap RecipientIds
    IN /\ BagIn(q, requests) /\ q.pc = "queried"
       /\ QueueRoom(Cardinality(matched))
       /\ BagCardinality(email_events) + Cardinality(matched) <= MaxEvents
       /\ recipients' = [r \in RecipientIds |->
                           IF r \in matched
                           THEN Flush(recipients[r], q.rows[r],
                                      [f \in {"status", "reply_detected_at", "next_send_at"} |->
                                          mark_recipient_as_replied(q.rows[r], now)[f]])
                           ELSE recipients[r]]
       /\ email_events' = email_events (+)
                            SetToBag({NewEvent(r, "REPLY", now) : r \in matched})
       /\ units' = Enqueue(units, matched, "cancel")
       /\ requests' = requests (-) SetToBag({q})
       /\ response' = NoExchange
       /\ UNCHANGED <<settings, rewrite_logs, now, campaigns, campaign_emails, email_accounts,
                      provider_log>>

----------------------------------------------------------------------------
(* routers/brevo_webhook.py *)

BounceText(event) ==
    IF event = "hard_bounce" THEN "Bounce: hard_bounce" ELSE "Bounce: soft_bounce"

\* The effects with a delivered event that sets Sent whatever the status was
\* (mutant)
WebhookEffect_DeliveredAlways(row, event, t) ==
    CASE event = "delivered" ->
           [row EXCEPT !.status = SENT, !.last_sent_at = t]
      [] event \in {"hard_bounce", "soft_bounce"} ->
           [row EXCEPT !.status = BOUNCED, !.error_message = BounceText(event)]
      [] event = "blocked" ->
           [row EXCEPT !.status = FAILED, !.error_message = "Blocked: Email blocked"]
      [] event = "invalid_email" ->
           [row EXCEPT !.status = FAILED, !.error_message = "Invalid email address"]
      [] event = "opened" ->
           [row EXCEPT !.open_count = @ + 1]
      [] event = "unsubscribed" ->
           [row EXCEPT !.status = SKIPPED, !.error_message = "Unsubscribed"]
      [] event = "complaint" ->
           [row EXCEPT !.status = SKIPPED, !.error_message = "Spam complaint"]
      [] OTHER -> row

\* lines 163-221: the recipient row after an event of the given type
WebhookEffect(row, event, t) ==
    CASE event = "delivered" ->
           [row EXCEPT !.status = IF @ = PENDING THEN SENT ELSE @,
                       !.last_sent_at = t]
      [] event \in {"hard_bounce", "soft_bounce"} ->
           [row EXCEPT !.status = BOUNCED, !.error_message = BounceText(event)]
      [] event = "blocked" ->
           [row EXCEPT !.status = FAILED, !.error_message = "Blocked: Email blocked"]
      [] event = "invalid_email" ->
           [row EXCEPT !.status = FAILED, !.error_message = "Invalid email address"]
      [] event = "opened" ->
           [row EXCEPT !.open_count = @ + 1]
      [] event = "unsubscribed" ->
           [row EXCEPT !.status = SKIPPED, !.error_message = "Unsubscribed"]
      [] event = "complaint" ->
           [row EXCEPT !.status = SKIPPED, !.error_message = "Spam complaint"]
      [] OTHER -> row

\* lines 190-199: the EmailEvent rows an event adds
WebhookEvents(rid, event, t) ==
    CASE event = "opened" -> SetToBag({NewEvent(rid, "OPEN", t)})
      [] OTHER -> EmptyBag

\* lines 201-210 and 234-237: "clicked" names EventType.CLICK, which the
\* enumeration does not have; the handler's except clause answers before
\* the commit and the request leaves no trace.
WebhookRaises(event) == event = "clicked"

\* lines 121-147: recipient by sent_message_id, else the contact's most
\* recently sent recipient (contact ids stand for their e-mail addresses)
WebhookTargets(message_id, email) ==
    LET byId == IF message_id = NULL THEN {}
                ELSE {r \in RecipientIds : recipients[r].sent_message_id = message_id}
        ofContact == {r \in RecipientIds : recipients[r].contact_id = email}
    IN IF Cardinality(byId) = 1 THEN byId
       ELSE IF Cardinality(byId) > 1 THEN {}      \* scalar_one_or_none raises
       ELSE {r \in ofContact :
               \A q \in ofContact : recipients[q].last_sent_at <= recipients[r].last_sent_at}

\* HMAC-SHA256 hex digest of the payload under the secret.  A digest is
\* modelled by the pair it is computed from: equal digests, equal inputs.
hmac_sha256(secret, payload) == <<secret, payload>>

\* The raw request body
Payload(event, message_id, email) == <<event, message_id, email>>

\* A request without the X-Brevo-Signature header
NoSignature == << >>

\* verify_brevo_signature(payload, signature)
verify_brevo_signature(payload, signature) ==
    IF settings.BREVO_WEBHOOK_SECRET = NULL \/ signature = NoSignature
    THEN TRUE
    ELSE hmac_sha256(settings.BREVO_WEBHOOK_SECRET, payload) = signature

\* lines 121-147: scalar_one_or_none raises when several rows carry the id
LookupRaises(message_id) ==
    /\ message_id # NULL
    /\ Cardinality({r \in RecipientIds : recipients[r].sent_message_id = message_id}) > 1

\* lines 149-152 and 230: {"status": "ok", "message": "Event processed"}
WebhookOk == Response(200, "ok", 0)

\* An internal error surfaced to the provider as a 500 (mutant)
WebhookError_Surfaced == Response(500, "error", 0)

\* lines 234-237: {"status": "error", ...} with status_code=200
WebhookError == Response(200, "error", 0)

WebhookUnauthorized == Response(401, "Invalid webhook signature", 0)

\* POST /api/brevo/webhook
brevo_webhook(event, message_id, email, signature) ==
    /\ IF ~verify_brevo_signature(Payload(event, message_id, email), signature)
       THEN /\ response' = Exchange("brevo_webhook", event, NULL, WebhookUnauthorized)
            /\ UNCHANGED <<recipients, email_events>>
       ELSE IF LookupRaises(message_id)
            \/ (WebhookTargets(message_id, email) # {} /\ WebhookRaises(event))
       THEN /\ response' = Exchange("brevo_webhook", event, NULL, WebhookError)
            /\ UNCHANGED <<recipients, email_events>>
       ELSE IF WebhookTargets(message_id, email) = {}
       THEN /\ response' = Exchange("brevo_webhook", event, NULL, WebhookOk)
            /\ UNCHANGED <<recipients, email_events>>
       ELSE \E rid \in WebhookTargets(message_id, email) :
              /\ BagCardinality(email_events)
                   + BagCardinality(WebhookEvents(rid, event, now)) <= MaxEvents
              /\ WebhookEffect(recipients[rid], event, now).open_count <= MaxOpens
              /\ recipients' = [recipients EXCEPT ![rid] = WebhookEffect(@, event, now)]
              /\ email_events' = email_events (+) WebhookEvents(rid, event, now)
              /\ response' = Exchange("brevo_webhook", event, NULL, WebhookOk)
    /\ UNCHANGED <<settings, rewrite_logs, requests, now, campaigns, campaign_emails,
                   email_accounts, units, provider_log>>

----------------------------------------------------------------------------
(* routers/tracking.py *)

TRACKING_PIXEL == "1x1 transparent PNG"

PixelResponse == Response(200, TRACKING_PIXEL, 0)

\* Target URLs of click links
Urls == {"https://a.example", "https://b.example"}

\* A recipient looked up by a tracking id that also answers unknown ids with
\* some recipient (mutant)
FindByTrackingId_OrAny(tracking_id) ==
    IF \E r \in RecipientIds : recipients[r].tracking_id = tracking_id
    THEN {r \in RecipientIds : recipients[r].tracking_id = tracking_id}
    ELSE RecipientIds

\* select(CampaignRecipient).where(tracking_id == ...): tracking_id is unique
FindByTrackingId(tracking_id) ==
    {r \in RecipientIds : recipients[r].tracking_id = tracking_id}

\* now.replace(hour=0, minute=0, second=0, microsecond=0)
today_start(t) == (t \div HoursPerDay) * HoursPerDay

\* The OPEN events of the recipient with timestamp >= today_start
OpensToday(rid, t) ==
    CountIn(email_events, {e \in BagToSet(email_events) :
                              /\ e.campaign_recipient_id = rid
                              /\ e.event_type = "OPEN"
                              /\ e.timestamp >= today_start(t)})

\* GET /api/track-open/{tracking_id}, lines 46-63: look the recipient up and
\* add 1 to the loaded open_count.  The request stays in progress.
track_open(tracking_id) ==
    /\ IF FindByTrackingId(tracking_id) = {}
       THEN /\ response' = Exchange("track_open", "", tracking_id, PixelResponse)
            /\ UNCHANGED requests
       ELSE \E r \in FindByTrackingId(tracking_id) :
              /\ BagCardinality(requests) < MaxRequests
              /\ recipients[r].open_count < MaxOpens
              /\ requests' = requests (+) SetToBag({
                    [ recipient_id |-> r, tracking_id |-> tracking_id,
                      pc |-> "loaded", now |-> now,
                      open_count |-> recipients[r].open_count + 1,
                      insert |-> FALSE ] })
              /\ response' = NoExchange
    /\ UNCHANGED <<settings, rewrite_logs, now, campaigns, campaign_emails, email_accounts,
                   recipients, email_events, units, provider_log>>

\* lines 65-87: an OPEN event is added only if the day has none yet.  With
\* several OPEN events that day scalar_one_or_none raises; the except clause
\* answers with the pixel and the session is committed by get_db.
OpenCheckEvent(q) ==
    /\ BagIn(q, requests) /\ q.pc = "loaded"
    /\ requests' = (requests (-) SetToBag({q})) (+) SetToBag({
          [q EXCEPT !.pc = "checked",
                    !.insert = (OpensToday(q.recipient_id, q.now) = 0)] })
    /\ response' = NoExchange
    /\ UNCHANGED <<settings, rewrite_logs, now, campaigns, campaign_emails, email_accounts,
                   recipients, email_events, units, provider_log>>

\* lines 89-102 and get_db: commit and answer with the pixel
OpenCommit(q) ==
    /\ BagIn(q, requests) /\ q.pc = "checked"
    /\ q.insert => BagCardinality(email_events) < MaxEvents
    /\ recipients' = [recipients EXCEPT ![q.recipient_id].open_count = q.open_count]
    /\ email_events' = IF q.insert
                       THEN email_events (+) SetToBag({NewEvent(q.recipient_id, "OPEN", q.now)})
                       ELSE email_events
    /\ requests' = requests (-) SetToBag({q})
    /\ response' = Exchange("track_open", "", q.tracking_id, PixelResponse)
    /\ UNCHANGED <<settings, rewrite_logs, now, campaigns, campaign_emails, email_accounts,
                   units, provider_log>>

\* GET /api/pixel/{tracking_id}.png
track_open_pixel(tracking_id) ==
    IF FindByTrackingId(tracking_id) # {}
    THEN track_open(tracking_id)
    ELSE /\ response' = Exchange("track_open", "", tracking_id, PixelResponse)
         /\ UNCHANGED <<settings, rewrite_logs, requests, now, campaigns, campaign_emails,
                        email_accounts, recipients, email_events, units, provider_log>>

\* The answer of track_click that gives up with 500 when recording the event
\* raised (mutant)
ClickResponse_ErrorOnRaise(url, raised) ==
    IF raised THEN Response(500, "Redirect failed", 0) ELSE Response(302, url, 0)

\* lines 134, 158, 160-166: RedirectResponse(url=url, status_code=302) on
\* every path
ClickResponse(url, raised) == Response(302, url, 0)

\* GET /api/click/{tracking_id}?url=...  The event is built with
\* EventType.CLICK; when the enumeration has no such member the attribute
\* access raises and nothing is added.
track_click(tracking_id, url) ==
    LET found  == FindByTrackingId(tracking_id)
        raised == found # {} /\ "CLICK" \notin EventType
    IN /\ IF found = {} \/ raised
          THEN UNCHANGED email_events
          ELSE \E r \in found :
                 /\ BagCardinality(email_events) < MaxEvents
                 /\ email_events' = email_events (+) SetToBag({NewEvent(r, "CLICK", now)})
       /\ response' = Exchange("track_click", "", tracking_id, ClickResponse(url, raised))
       /\ UNCHANGED <<settings, rewrite_logs, requests, now, campaigns, campaign_emails,
                      email_accounts, recipients, units, provider_log>>

----------------------------------------------------------------------------
(* routers/rewrite.py: POST /api/rewrite *)

\* users.subscription_plan of each user

subscription_plan(user_id) == IF user_id = 1 THEN "standard" ELSE "pro"

\* get_daily_limit_for_user
get_daily_limit_for_user(user_id) ==
    IF subscription_plan(user_id) = "standard" THEN STANDARD_PLAN_DAILY_LIMIT
    ELSE IF subscription_plan(user_id) = "pro" THEN PRO_PLAN_DAILY_LIMIT
    ELSE STANDARD_PLAN_DAILY_LIMIT

\* check_daily_usage_limit: count of the user's rows with
\* created_at >= start_of_day
check_daily_usage_limit(user_id, t) ==
    CountIn(rewrite_logs, {l \in BagToSet(rewrite_logs) :
                              l.user_id = user_id /\ l.created_at >= today_start(t)})

\* check_minute_usage_limit: count of the user's rows with
\* created_at >= start_of_minute.  The clock of the model counts hours, so
\* the rows of the current hour are the most the current minute can hold.
MinuteCounts(user_id, t) ==
    0..CountIn(rewrite_logs, {l \in BagToSet(rewrite_logs) :
                                 l.user_id = user_id /\ l.created_at = t})

\* lines 208-213, 216-229: the HTTPException raised before the OpenAI call,
\* status 0 if none
RewriteRefusal(user_id, used_in_minute, t) ==
    IF used_in_minute >= REWRITE_RATE_LIMIT_PER_MINUTE
    THEN Response(429, "Rate limit exceeded", 0)
    ELSE IF check_daily_usage_limit(user_id, t) >= get_daily_limit_for_user(user_id)
    THEN Response(429, "Daily rewrite limit reached", 0)
    ELSE IF settings.OPENAI_API_KEY = ""
    THEN Response(500, "OpenAI API key is not configured", 0)
    ELSE Response(0, "", 0)

AnswerRewrite(q, resp) ==
    /\ requests' = requests (-) SetToBag({q})
    /\ response' = Exchange("rewrite_email", "", NULL, resp)

\* lines 206-229: the request arrives and passes or fails the first checks
rewrite_email(user_id) ==
    /\ \E used_in_minute \in MinuteCounts(user_id, now) :
          IF RewriteRefusal(user_id, used_in_minute, now).status # 0
          THEN /\ response' = Exchange("rewrite_email", "", NULL,
                                 RewriteRefusal(user_id, used_in_minute, now))
               /\ UNCHANGED requests
          ELSE /\ BagCardinality(requests) < MaxRequests
               /\ requests' = requests (+) SetToBag({
                     [handler |-> "rewrite_email", user_id |-> user_id, pc |-> "calling"]})
               /\ response' = NoExchange
    /\ UNCHANGED <<settings, rewrite_logs, now, campaigns, campaign_emails, email_accounts,
                   recipients, email_events, units, provider_log>>

\* lines 242-270, 310-320: the OpenAI call returns a text, returns nothing,
\* or raises after its retries
RewriteCall(q, outcome) ==
    /\ BagIn(q, requests) /\ q.pc = "calling"
    /\ IF outcome = "ok"
       THEN /\ requests' = (requests (-) SetToBag({q}))
                              (+) SetToBag({[q EXCEPT !.pc = "called"]})
            /\ response' = NoExchange
       ELSE IF outcome = "empty"
       THEN AnswerRewrite(q, Response(500, "OpenAI API returned empty response", 0))
       ELSE AnswerRewrite(q, Response(500, "Failed to rewrite email. Please try again later.", 0))
    /\ UNCHANGED <<settings, rewrite_logs, now, campaigns, campaign_emails, email_accounts,
                   recipients, email_events, units, provider_log>>

\* lines 281-288: the daily limit is checked again before the log is written
RewriteRecheck(q) ==
    /\ BagIn(q, requests) /\ q.pc = "called"
    /\ IF check_daily_usage_limit(q.user_id, now) >= get_daily_limit_for_user(q.user_id)
       THEN AnswerRewrite(q, Response(429, "Daily rewrite limit reached", 0))
       ELSE /\ requests' = (requests (-) SetToBag({q}))
                              (+) SetToBag({[q EXCEPT !.pc = "checked"]})
            /\ response' = NoExchange
    /\ UNCHANGED <<settings, rewrite_logs, now, campaigns, campaign_emails, email_accounts,
                   recipients, email_events, units, provider_log>>

\* lines 291-309: the RewriteLog row is inserted and committed, created_at
\* taking the time of the insert
RewriteInsert(q) ==
    /\ BagIn(q, requests) /\ q.pc = "checked"
    /\ rewrite_logs' = rewrite_logs (+)
          SetToBag({[user_id |-> q.user_id, created_at |-> now]})
    /\ AnswerRewrite(q, Response(200, "rewritten_email", 0))
    /\ UNCHANGED <<settings, now, campaigns, campaign_emails, email_accounts,
                   recipients, email_events, units, provider_log>>

----------------------------------------------------------------------------
(* The system *)

\* The engine under the requests that are accepted: launches of Draft
\* campaigns by entitled users, pauses of Running campaigns, provider events
\* that match a recipient.
Launch  == \E c \in CampaignIds : campaigns[c].status = DRAFT /\ launch_campaign(c, "pro")
Pause   == \E c \in CampaignIds : campaigns[c].status = RUNNING /\ pause_campaign(c)
Poll    == process_pending_emails
Load    == \E u \in BagToSet(units) : DispatchLoad(u)
Check   == \E u \in BagToSet(units) : DispatchCheckCampaign(u)
Send    == \E u \in BagToSet(units), outcome \in {"ok", "error"} : DispatchSend(u, outcome)
Commit  == \E u \in BagToSet(units) : DispatchCommit(u)
Cancel  == \E u \in BagToSet(units) : cancel_followups_for_contact(u)
Replies == \E ids \in SUBSET MessageIds : check_replies(ids, {}, {})
Webhook == \E ev \in DeliveryEvents, mid \in MessageIds \cup {NULL},
              email \in RecipientIds \cup {0} :
                 /\ WebhookTargets(mid, email) # {}
                 /\ ~LookupRaises(mid)
                 /\ brevo_webhook(ev, mid, email, NoSignature)

Next ==
    \/ Launch
    \/ Pause
    \/ Tick
    \/ Poll
    \/ Load
    \/ Check
    \/ Send
    \/ Commit
    \/ Cancel
    \/ Replies
    \/ Webhook

Spec == Init /\ [][Next]_vars

\* Launches: any launch and pause request, against campaigns of one or more
\* contacts that the dispatcher and the poller work on.
LaunchInit == create_campaign(1..MaxContacts, StepConfigs, AccountConfigs, {NULL})

LaunchRequest == \E c \in CampaignIds, plan \in {"free", "pro"} : launch_campaign(c, plan)
PauseRequest  == \E c \in CampaignIds : pause_campaign(c)

LaunchNext ==
    \/ LaunchRequest
    \/ PauseRequest
    \/ Tick
    \/ Poll
    \/ Load
    \/ Check
    \/ Send
    \/ Commit

LaunchSpec == LaunchInit /\ [][LaunchNext]_vars

\* Overlapping launch requests for one campaign, and the dispatch of what
\* they queue
LaunchBegin  == \E c \in CampaignIds, plan \in {"free", "pro"} : LaunchCheckStatus(c, plan)
LaunchWrite  == \E q \in BagToSet(requests) : LaunchCommitRunning(q)
LaunchQueue  == \E q \in BagToSet(requests) : LaunchQueueTasks(q)

RaceNext ==
    \/ LaunchBegin
    \/ LaunchWrite
    \/ LaunchQueue
    \/ Tick
    \/ Load
    \/ Check
    \/ Send
    \/ Commit

RaceSpec == Init /\ [][RaceNext]_vars

\* One recipient, a one-step sequence, an SMTP default account and a Gmail
\* account, with or without a webhook secret
HttpInit == create_campaign({NumRecipients}, {OneStep}, {{SmtpDefault, GmailActive}},
                            WebhookSecrets)

\* The tracking endpoints: any pixel and click request, and the provider's
\* open and click events, against a launched campaign.
TrackingIds == 0..NumRecipients

TrackOpen      == \E tid \in TrackingIds : track_open(tid)
TrackOpenPixel == \E tid \in TrackingIds : track_open_pixel(tid)
OpenCheck      == \E q \in BagToSet(requests) : OpenCheckEvent(q)
OpenDone       == \E q \in BagToSet(requests) : OpenCommit(q)
TrackClick     == \E tid \in TrackingIds, url \in Urls : track_click(tid, url)
WebhookTracking ==
    \E ev \in {"opened", "clicked"}, email \in RecipientIds :
       brevo_webhook(ev, NULL, email, NoSignature)

TrackNext ==
    \/ Launch
    \/ Tick
    \/ TrackOpen
    \/ TrackOpenPixel
    \/ OpenCheck
    \/ OpenDone
    \/ TrackClick
    \/ WebhookTracking

TrackSpec == HttpInit /\ [][TrackNext]_vars

\* The provider webhook: any event with any signature header, against a
\* campaign that is dispatched and replied to.
\* Signature headers: none, the digest of the body under the configured
\* secret, the digest under another secret
Signatures(payload) ==
    {NoSignature, hmac_sha256(settings.BREVO_WEBHOOK_SECRET, payload),
     hmac_sha256(0, payload)}

\* What a request identifies the recipient by: the message id of the first
\* send, the contact's e-mail address, or neither
WebhookKeys == {<<1, 0>>, <<NULL, 1>>, <<NULL, 0>>}

WebhookRequest ==
    \E ev \in BrevoEvents, k \in WebhookKeys :
       \E sig \in Signatures(Payload(ev, k[1], k[2])) : brevo_webhook(ev, k[1], k[2], sig)

WebhookNext ==
    \/ Launch
    \/ Load
    \/ Check
    \/ Send
    \/ Commit
    \/ Cancel
    \/ Replies
    \/ WebhookRequest

WebhookSpec == HttpInit /\ [][WebhookNext]_vars

\* The poller under backlog: campaign 1 of user 1 with as many contacts as a
\* batch holds and campaign 2 of user 2 with one contact, so that more
\* recipients can be due than one tick hands over.
PollAccounts == { {SmtpDefault, SmtpOfUser2},
                  {SmtpDefault, OutlookDefault, SmtpOfUser2} }

PollInit ==
    /\ settings = [BREVO_WEBHOOK_SECRET |-> NULL]
    /\ requests = EmptyBag
    /\ response = NoExchange
    /\ now = 0
    /\ campaigns = [c \in 1..2 |->
                      [user_id |-> c, status |-> DRAFT,
                       launched_at |-> NULL, paused_at |-> NULL,
                       name |-> "campaign"]]
    /\ campaign_emails = [c \in 1..2 |-> OneStep]
    /\ email_accounts \in PollAccounts
    /\ recipients = [r \in 1..(MAX_EMAILS_PER_MINUTE + 1) |->
                       generate_tracking_id(
                          NewRecipient(IF r <= MAX_EMAILS_PER_MINUTE THEN 1 ELSE 2, r, NULL), r)]
    /\ email_events = EmptyBag
    /\ units = EmptyBag
    /\ provider_log = EmptyLog
    /\ rewrite_logs = EmptyBag

LaunchAny == \E c \in DOMAIN campaigns : launch_campaign(c, "pro")
PauseAny  == \E c \in DOMAIN campaigns : pause_campaign(c)

PollNext ==
    \/ LaunchAny
    \/ PauseAny
    \/ Poll
    \/ Load
    \/ Check
    \/ Send
    \/ Commit

PollSpec == PollInit /\ [][PollNext]_vars

\* The same system when the beat schedule keeps firing the poller, the
\* workers keep running queued tasks, and the broker accepts every message
\* the poller sends
PollUp == ProcessPending({})

PollFairNext ==
    \/ LaunchAny
    \/ PauseAny
    \/ PollUp
    \/ Load
    \/ Check
    \/ Send
    \/ Commit

PollFairSpec ==
    /\ PollInit
    /\ [][PollFairNext]_vars
    /\ WF_vars(PollUp)
    /\ WF_vars(Load)
    /\ WF_vars(Check)
    /\ WF_vars(Send)
    /\ WF_vars(Commit)

\* Deletions: two campaigns of one user, the first with MaxContacts contacts,
\* the second with the first of them again
DeleteInit ==
    /\ settings = [BREVO_WEBHOOK_SECRET |-> NULL]
    /\ requests = EmptyBag
    /\ response = NoExchange
    /\ now = 0
    /\ campaigns = [c \in 1..2 |->
                      [user_id |-> 1, status |-> DRAFT,
                       launched_at |-> NULL, paused_at |-> NULL,
                       name |-> "campaign"]]
    /\ campaign_emails = [c \in 1..2 |-> OneStep]
    /\ email_accounts = {SmtpDefault}
    /\ recipients = [r \in 1..(MaxContacts + 1) |->
                       generate_tracking_id(
                          IF r <= MaxContacts THEN NewRecipient(1, r, NULL)
                                              ELSE NewRecipient(2, 1, NULL), r)]
    /\ email_events = EmptyBag
    /\ units = EmptyBag
    /\ provider_log = EmptyLog
    /\ rewrite_logs = EmptyBag

DeleteContact  == \E k \in 1..MaxContacts : delete_contact(k)
DeleteCampaign == \E c \in 1..2 : delete_campaign(c)

DeleteNext ==
    \/ LaunchAny
    \/ DeleteContact
    \/ DeleteCampaign
    \/ Load
    \/ Check
    \/ Send
    \/ Commit

DeleteSpec == DeleteInit /\ [][DeleteNext]_vars

\* Reply detection: passes of the detector that may overlap, on a campaign
\* whose recipients are dispatched once each
ReplyBegin == \E user_id \in UserIds, ids \in SUBSET MessageIds : ReplyPassQuery(user_id, ids)
ReplyEnd   == \E q \in BagToSet(requests) : ReplyPassMark(q)

ReplyNext ==
    \/ Launch
    \/ Tick
    \/ Load
    \/ Check
    \/ Send
    \/ Commit
    \/ Cancel
    \/ ReplyBegin
    \/ ReplyEnd

ReplySpec == Init /\ [][ReplyNext]_vars

\* Providers: the owner's default account is of any of the four kinds
ProviderInit ==
    create_campaign({NumRecipients}, StepConfigs,
                    {{SmtpDefault}, {BrevoDefault}, {GmailDefault}, {OutlookDefault}}, {NULL})

ProviderSpec == ProviderInit /\ [][PollNext]_vars

\* Creation: any request body, accepted or not, then the requests on what
\* was created
CreateRequest == \E v \in StepLists, ids \in ContactIdLists : post_campaign(v, ids)

CreateNext ==
    \/ CreateRequest
    \/ LaunchAny
    \/ PauseAny

CreateSpec == NoCampaigns /\ [][CreateNext]_vars

\* The life of a campaign: launch requests that may overlap, and pause,
\* update and delete requests, with the dispatch of what the launches queue
CampaignNames == {"campaign", "renamed"}

LaunchExisting == \E c \in DOMAIN campaigns : LaunchCheckStatus(c, "pro")
UpdateCampaign == \E c \in CampaignIds, name \in CampaignNames : update_campaign(c, name)
RemoveCampaign == \E c \in CampaignIds : delete_campaign(c)

LifeNext ==
    \/ LaunchExisting
    \/ LaunchWrite
    \/ LaunchQueue
    \/ PauseAny
    \/ UpdateCampaign
    \/ RemoveCampaign
    \/ Load
    \/ Check
    \/ Send
    \/ Commit

LifeSpec == Init /\ [][LifeNext]_vars

\* The same requests when none overlaps another: each launch is one step
SerialNext ==
    \/ LaunchAny
    \/ PauseAny
    \/ UpdateCampaign
    \/ RemoveCampaign
    \/ Load
    \/ Check
    \/ Send
    \/ Commit

SerialSpec == Init /\ [][SerialNext]_vars

\* Batches: the poller and the reply detector over two users, the first with
\* two accounts that can be asked for replies, when enqueuing, a user's
\* check or an account's query may fail
BatchInit ==
    /\ settings = [BREVO_WEBHOOK_SECRET |-> NULL]
    /\ requests = EmptyBag
    /\ response = NoExchange
    /\ now = 0
    /\ campaigns = [c \in 1..2 |->
                      [user_id |-> c, status |-> DRAFT,
                       launched_at |-> NULL, paused_at |-> NULL,
                       name |-> "campaign"]]
    /\ campaign_emails = [c \in 1..2 |-> OneStep]
    /\ email_accounts = {SmtpDefault, GmailActive, OutlookActive, SmtpOfUser2, GmailOfUser2}
    /\ recipients = [r \in 1..(MAX_EMAILS_PER_MINUTE + 1) |->
                       generate_tracking_id(
                          NewRecipient(IF r <= MAX_EMAILS_PER_MINUTE THEN 1 ELSE 2, r, NULL), r)]
    /\ email_events = EmptyBag
    /\ units = EmptyBag
    /\ provider_log = EmptyLog
    /\ rewrite_logs = EmptyBag

\* No element of S, or one of them
AtMostOne(S) == {{}} \cup {{x} : x \in S}

\* A pass in which the check of one user, or the query of one account, may
\* raise
RepliesPass ==
    \E ids \in SUBSET MessageIds, broken_users \in AtMostOne(UserIds),
       broken_accounts \in AtMostOne(ReplyCapable(email_accounts)) :
          check_replies(ids, broken_users, broken_accounts)

BatchNext ==
    \/ LaunchAny
    \/ Poll
    \/ Load
    \/ Check
    \/ Send
    \/ Commit
    \/ RepliesPass
    \/ Cancel

BatchSpec == BatchInit /\ [][BatchNext]_vars

\* Rewrites: a standard user and a pro user, with or without an OpenAI key
RewriteInit ==
    /\ settings \in [BREVO_WEBHOOK_SECRET : {NULL}, OPENAI_API_KEY : {"", "sk"}]
    /\ requests = EmptyBag
    /\ response = NoExchange
    /\ now = 0
    /\ campaigns = [c \in CampaignIds |->
                      [user_id |-> c, status |-> DRAFT,
                       launched_at |-> NULL, paused_at |-> NULL,
                       name |-> "campaign"]]
    /\ campaign_emails = [c \in CampaignIds |-> OneStep]
    /\ email_accounts = {SmtpDefault}
    /\ recipients = [r \in 1..NumRecipients |->
                       generate_tracking_id(NewRecipient(1, r, NULL), r)]
    /\ email_events = EmptyBag
    /\ units = EmptyBag
    /\ provider_log = EmptyLog
    /\ rewrite_logs = EmptyBag

RewriteRequest == \E user_id \in UserIds : rewrite_email(user_id)
OpenAiAnswer   == \E q \in BagToSet(requests), outcome \in {"ok", "empty", "error"} :
                     RewriteCall(q, outcome)
Recheck        == \E q \in BagToSet(requests) : RewriteRecheck(q)
Insert         == \E q \in BagToSet(requests) : RewriteInsert(q)

RewriteNext ==
    \/ RewriteRequest
    \/ OpenAiAnswer
    \/ Recheck
    \/ Insert
    \/ Tick

RewriteSpec == RewriteInit /\ [][RewriteNext]_vars

----------------------------------------------------------------------------
(* Observations used by the properties *)

Terminal == {REPLIED, BOUNCED, FAILED, SKIPPED}

NumSteps(cid) == Len(campaign_emails[cid])

SendUnits(b) == {u \in BagToSet(b) : u.kind = "send"}

\* Send tasks of recipient r that are past the status guard of lines 56-59
PastStatusGuard(b, r) ==
    {u \in SendUnits(b) : u.recipient_id = r /\ u.pc \in {"loaded", "checked", "inflight"}}

\* Send tasks of campaign c that are past the campaign check of lines 61-69
PastCampaignCheck(b, c) ==
    {u \in SendUnits(b) : u.pc \in {"checked", "inflight"} /\ u.recipient.campaign_id = c}

\* The step delay as the claim reads it: the wait before step n fires
DelayBefore(cid, n) ==
    timedelta(campaign_emails[cid][n].delay_days, campaign_emails[cid][n].delay_hours)

\* A step in which a send of recipient r was committed as successful
SendCommitted(r) == recipients'[r].current_step # recipients[r].current_step

----------------------------------------------------------------------------
(* Properties *)

\* C1: for every recipient, next_send_at is non-null only while the status is
\* Pending.
C1_NextSendOnlyWhilePending ==
    \A r \in RecipientIds :
        recipients[r].next_send_at # NULL => recipients[r].status = PENDING

\* C2: of the dispatch units of one recipient that run concurrently, at most
\* one makes the provider call for a step: never are two of them both past
\* the provider call for the same step.
C2_AtMostOneProviderCall ==
    \A r \in RecipientIds : \A n \in 1..2 :
        CountIn(units, {u \in SendUnits(units) :
                           u.recipient_id = r /\ u.pc = "inflight" /\ u.next_step = n}) <= 1

\* C3: in a Running two-step campaign whose step 2 waits one day, a recipient
\* that was sent step 1 (successfully, no reply, bounce or failure since) is
\* selected by the poller once that day has passed.
C3_SecondStepSelected ==
    \A r \in RecipientIds :
        LET row == recipients[r]
            cid == row.campaign_id
        IN ( /\ campaigns[cid].status = RUNNING
             /\ NumSteps(cid) = 2
             /\ DelayBefore(cid, 2) = timedelta(1, 0)
             /\ row.current_step = 1
             /\ provider_log[r][1] = [calls |-> 1, ok |-> 1]
             /\ row.status \notin Terminal
             /\ row.error_message = NoError
             /\ now >= row.last_sent_at + DelayBefore(cid, 2) )
           => r \in DueRecipients

\* C4: the commit of a successful send of the last step leaves the recipient
\* Skipped with next_send_at null.
C4_LastStepEndsSkipped ==
    [][ \A r \in RecipientIds :
          ( /\ SendCommitted(r)
            /\ recipients'[r].current_step = NumSteps(recipients[r].campaign_id) )
          => ( /\ recipients'[r].status = SKIPPED
               /\ recipients'[r].next_send_at = NULL ) ]_vars

\* C5: the commit of a successful send of a non-last step i re-arms
\* next_send_at to now plus the delay of step i+1.
C5_RearmWithNextStepDelay ==
    [][ \A r \in RecipientIds :
          LET cid == recipients[r].campaign_id
              i   == recipients'[r].current_step
          IN ( SendCommitted(r) /\ i < NumSteps(cid) )
             => recipients'[r].next_send_at = now + DelayBefore(cid, i + 1) ]_vars

\* C6: a campaign that is not Running sends nothing.  While the campaign is not
\* Running and no dispatch unit of it has already passed its campaign check,
\* no step makes a provider call, a dispatch unit that ends changes no
\* recipient row, and (as long as the campaign stays not Running) no dispatch
\* unit passes the campaign check.
C6_Quiet(c) ==
    /\ campaigns[c].status # RUNNING
    /\ PastCampaignCheck(units, c) = {}

C7_Cancelled(r) ==
    /\ recipients[r].reply_detected_at # NULL
    /\ PastStatusGuard(units, r) = {}

C9_NoSendForTerminal ==
    \A u \in SendUnits(units) :
        u.pc = "inflight" => u.recipient.status \notin Terminal

\* C10: the commit of a dispatch unit that loaded its recipient as Pending
\* leaves status and next_send_at alone when the row has meanwhile become
\* Bounced, Failed, Skipped or Replied.
C10_CommitKeepsTerminal ==
    [][ \A u \in SendUnits(units) :
          ( /\ DispatchCommit(u)
            /\ u.recipient.status = PENDING
            /\ recipients[u.recipient_id].status \in Terminal )
          => /\ recipients'[u.recipient_id].status = recipients[u.recipient_id].status
             /\ recipients'[u.recipient_id].next_send_at
                  = recipients[u.recipient_id].next_send_at ]_vars

\* Recipients that carry the tracking id
Recognized(tracking_id) ==
    {r \in RecipientIds : recipients[r].tracking_id = tracking_id}

\* Number of events of the given type logged for recipient r
EventsOf(b, r, type) ==
    CountIn(b, {e \in BagToSet(b) : e.campaign_recipient_id = r /\ e.event_type = type})

\* C11: a successful launch of a campaign with N member contacts leaves
\* exactly N recipient rows of the campaign, each Pending with next_send_at
\* equal to the time of the launch request and a non-empty tracking_id, the
\* tracking_ids pairwise distinct, and the response reports N.
C11_LaunchArmsEveryMember ==
    [][ \A c \in CampaignIds :
          ( /\ launch_campaign(c, "pro")
            /\ response'.status = 200 )
          => LET rows == {r \in DOMAIN recipients' : recipients'[r].campaign_id = c}
             IN /\ DOMAIN recipients' = DOMAIN recipients
                /\ Cardinality(rows) = Cardinality(RecipientIds)
                /\ response'.count = Cardinality(RecipientIds)
                /\ \A r \in rows :
                     /\ recipients'[r].status = PENDING
                     /\ recipients'[r].next_send_at = now
                     /\ recipients'[r].tracking_id # NULL
                /\ \A r1, r2 \in rows :
                     r1 # r2 => recipients'[r1].tracking_id # recipients'[r2].tracking_id ]_vars

\* C11 witness: a launch of a campaign with two contacts was answered with
\* two recipients scheduled.
C11_Witness ==
    /\ response.handler = "launch_campaign"
    /\ response.status = 200
    /\ response.count = 2
    /\ Cardinality(RecipientIds) = 2

\* C12: a launch by a user without the pro plan, of a campaign that is not
\* Draft or of one without steps is rejected (403 or 400) and leaves the
\* campaign, every recipient row and the task queue as they were.
C12_RejectedLaunchChangesNothing ==
    [][ \A c \in CampaignIds : \A plan \in {"free", "pro"} :
          ( /\ launch_campaign(c, plan)
            /\ \/ plan # "pro"
               \/ campaigns[c].status # DRAFT
               \/ Len(campaign_emails[c]) = 0 )
          => /\ response'.status \in {400, 403}
             /\ UNCHANGED <<campaigns, recipients, units, provider_log, email_events>> ]_vars

\* C12 witness: a launch of a campaign that is already Running or Paused was
\* answered 400.
C12_Witness ==
    /\ response.handler = "launch_campaign"
    /\ response.status = 400
    /\ campaigns[1].status \in {RUNNING, PAUSED}
    /\ campaigns[1].launched_at # NULL

\* C13: an open-pixel request (either endpoint) with a tracking_id that no
\* recipient carries is answered with the pixel and changes no recipient, no
\* event and starts nothing.
C13_UnknownPixelChangesNothing ==
    [][ \A tid \in TrackingIds :
          ( /\ track_open(tid) \/ track_open_pixel(tid)
            /\ Recognized(tid) = {} )
          => /\ response' = Exchange("track_open", "", tid, PixelResponse)
             /\ UNCHANGED <<recipients, email_events, requests>> ]_vars

\* C13 witness: a pixel request for an unknown tracking_id was answered while
\* the campaign is launched and the recipient has opens on record.
C13_Witness ==
    /\ response = Exchange("track_open", "", 0, PixelResponse)
    /\ Recognized(0) = {}
    /\ campaigns[1].status = RUNNING
    /\ \E r \in RecipientIds : recipients[r].open_count > 0

\* C14: every open-pixel hit on a recognized tracking_id leaves the persisted
\* open_count exactly 1 higher than it was when the hit is committed.
C14_EveryHitCounts ==
    [][ \A q \in BagToSet(requests) :
          OpenCommit(q)
          => recipients'[q.recipient_id].open_count
               = recipients[q.recipient_id].open_count + 1 ]_vars

\* C15: an open-pixel hit appends one OPEN event if the recipient has none
\* that day and none otherwise, in every interleaving of hits.
C15_OneOpenEventPerDay ==
    [][ \A q \in BagToSet(requests) :
          OpenCommit(q)
          => email_events' =
               IF OpensToday(q.recipient_id, q.now) = 0
               THEN email_events (+) SetToBag({NewEvent(q.recipient_id, "OPEN", q.now)})
               ELSE email_events ]_vars

\* C16: a click request for a recognized tracking_id appends one CLICK event
\* for that recipient.
C16_ClickIsLogged ==
    [][ \A tid \in TrackingIds : \A url \in Urls :
          ( track_click(tid, url) /\ Recognized(tid) # {} )
          => \A r \in Recognized(tid) :
               EventsOf(email_events', r, "CLICK") = EventsOf(email_events, r, "CLICK") + 1 ]_vars

C18_BadSignatureRejected ==
    [][ \A ev \in {response'.event} \cap BrevoEvents : \A k \in WebhookKeys :
        \A sig \in Signatures(Payload(ev, k[1], k[2])) :
          ( /\ settings.BREVO_WEBHOOK_SECRET # NULL
            /\ sig # hmac_sha256(settings.BREVO_WEBHOOK_SECRET, Payload(ev, k[1], k[2]))
            /\ brevo_webhook(ev, k[1], k[2], sig) )
          => /\ response'.status = 401
             /\ UNCHANGED <<recipients, email_events>> ]_vars

\* C19: a webhook request is answered 200 unless it fails signature
\* verification, also when no recipient matches and when processing raises;
\* the only other answer is 401, given only when the secret is configured and
\* the signature header is present and wrong.
C19_WebhookAnswers200 ==
    [][ \A ev \in {response'.event} \cap BrevoEvents : \A k \in WebhookKeys :
        \A sig \in Signatures(Payload(ev, k[1], k[2])) :
          \/ response'.status =
               IF /\ settings.BREVO_WEBHOOK_SECRET # NULL
                  /\ sig # NoSignature
                  /\ sig # hmac_sha256(settings.BREVO_WEBHOOK_SECRET, Payload(ev, k[1], k[2]))
               THEN 401 ELSE 200
          \/ ~brevo_webhook(ev, k[1], k[2], sig) ]_vars

\* C19 witness: a webhook whose processing raised (a clicked event for a
\* matched recipient) was answered 200.
C19_Witness ==
    /\ response.handler = "brevo_webhook"
    /\ response.event = "clicked"
    /\ response.status = 200
    /\ response.body = "error"

\* The status the claim gives a matched recipient after an event
C20_Status(prior, event) ==
    CASE event = "delivered" -> IF prior = PENDING THEN SENT ELSE prior
      [] event \in {"hard_bounce", "soft_bounce"} -> BOUNCED
      [] event \in {"blocked", "invalid_email"} -> FAILED
      [] event \in {"unsubscribed", "complaint"} -> SKIPPED
      [] event \in {"opened", "clicked", "spam"} -> prior

\* C20: the status of a matched recipient after a verified webhook is the
\* claim's function of the event and the prior status, and an opened event
\* adds 1 to open_count and one OPEN event.
C20_StatusIsFunctionOfEvent ==
    [][ \A ev \in {response'.event} \cap (BrevoEvents \ {"request", "deferred"}) :
        \A k \in WebhookKeys : \A sig \in Signatures(Payload(ev, k[1], k[2])) :
          \/ \A r \in WebhookTargets(k[1], k[2]) :
               /\ recipients'[r].status = C20_Status(recipients[r].status, ev)
               /\ ev = "opened" =>
                    /\ recipients'[r].open_count = recipients[r].open_count + 1
                    /\ EventsOf(email_events', r, "OPEN")
                         = EventsOf(email_events, r, "OPEN") + 1
          \/ ~( brevo_webhook(ev, k[1], k[2], sig) /\ response'.status = 200 ) ]_vars

\* C20 witness: a delivered event was applied to a recipient that had been
\* bounced before any send, and the recipient is still Bounced.
C20_Witness ==
    /\ response.handler = "brevo_webhook"
    /\ response.event = "delivered"
    /\ response.body = "ok"
    /\ \E r \in RecipientIds :
         /\ recipients[r].status = BOUNCED
         /\ recipients[r].last_sent_at # NULL
         /\ recipients[r].sent_message_id = NULL

\* C21: a poller tick hands over only recipients that are Pending with
\* next_send_at <= now when it selects them, at most
\* MAX_EMAILS_PER_MINUTE of them, each at most once, and changes no
\* recipient row.
C21_PollerHandsOnlyDue ==
    [][ process_pending_emails =>
          LET handed == units' (-) units
          IN /\ units' = units (+) handed
             /\ BagCardinality(handed) <= MAX_EMAILS_PER_MINUTE
             /\ \A u \in BagToSet(handed) :
                   /\ handed[u] = 1
                   /\ u = NewUnit("send", u.recipient_id)
                   /\ recipients[u.recipient_id].status = PENDING
                   /\ recipients[u.recipient_id].next_send_at # NULL
                   /\ recipients[u.recipient_id].next_send_at <= now
             /\ UNCHANGED recipients ]_vars

\* C21 witness: with more recipients due than a batch holds, the queue has a
\* second message for a recipient, which only a poller tick adds.
C21_Witness ==
    /\ Cardinality(DueRecipients) > MAX_EMAILS_PER_MINUTE
    /\ \E u \in BagToSet(units) : u.pc = "queued" /\ units[u] = 2

\* A recipient that waits for the poller: Pending and due, its campaign
\* Running, and no message for it on the queue
WaitsForPoller(r) ==
    /\ IsDue(recipients[r], now)
    /\ campaigns[recipients[r].campaign_id].status = RUNNING
    /\ \A u \in BagToSet(units) : u.recipient_id # r

\* C22: while poller ticks keep firing, every recipient of a Running campaign
\* that is Pending and due is handed to the dispatcher by some later tick (or
\* stops being due), however many other recipients are due.
C22_NoDueRecipientStarves ==
    \A r \in 1..(MAX_EMAILS_PER_MINUTE + 1) :
        WaitsForPoller(r) ~>
            ( \/ \E u \in BagToSet(units) : u.kind = "send" /\ u.recipient_id = r
              \/ ~IsDue(recipients[r], now)
              \/ campaigns[recipients[r].campaign_id].status # RUNNING )

\* C23: a transport failure of the provider call does not make the recipient
\* Failed while the dispatch unit has retries left: the commit after a failed
\* call sets Failed only when the step has been tried 1 + max_retries times.
C23_TransportFailureIsRetried ==
    [][ \A u \in SendUnits(units) :
          ( /\ DispatchCommit(u)
            /\ ~u.send_result.success
            /\ u.send_result.error = ErrSend
            /\ u.recipient.status = PENDING
            /\ provider_log[u.recipient_id][u.next_step].calls <= max_retries )
          => recipients'[u.recipient_id].status # FAILED ]_vars

\* A dispatch of unit u that finds a step to send and no active default
\* account of the campaign's owner (lines 93-107)
DispatchWithoutAccount(u) ==
    /\ u.pc = "checked"
    /\ StepsNumbered(u.recipient.campaign_id, u.recipient.current_step + 1) # {}
    /\ DefaultAccounts(campaigns[u.recipient.campaign_id].user_id) = {}
    /\ \E outcome \in {"ok", "error"} : DispatchSend(u, outcome)

\* C24: a dispatch that finds no active default account of the owner calls no
\* provider, leaves the recipient Failed with the error recorded and queues
\* nothing for it; and no poller tick hands a Failed recipient to the
\* dispatcher.
C24_NoAccountIsTerminal ==
    [][ /\ \A u \in SendUnits(units) :
              DispatchWithoutAccount(u) =>
                 /\ provider_log' = provider_log
                 /\ recipients'[u.recipient_id].status = FAILED
                 /\ recipients'[u.recipient_id].error_message = ErrNoAccount
                 /\ units' = units (-) SetToBag({u})
        /\ process_pending_emails =>
              \A u \in BagToSet(units' (-) units) :
                 recipients[u.recipient_id].status # FAILED ]_vars

\* C25: a pause of a Running campaign answers 200, sets the campaign Paused
\* with paused_at set to the time of the request, and changes nothing else;
\* a pause of a campaign in any other status answers 400 and changes nothing.
\* In both cases every recipient row stays as it was.
C25_PauseOnlyRunning ==
    [][ \A c \in CampaignIds :
          pause_campaign(c) =>
             /\ recipients' = recipients
             /\ units' = units
             /\ IF campaigns[c].status = RUNNING
                THEN /\ response'.status = 200
                     /\ campaigns' = [campaigns EXCEPT ![c].status = PAUSED,
                                                       ![c].paused_at = now]
                     /\ campaigns'[c].paused_at # NULL
                ELSE /\ response'.status = 400
                     /\ campaigns' = campaigns ]_vars

\* A campaign paused by an accepted request while a recipient of it still
\* waits with its send time armed
C25_Witness ==
    /\ response.handler = "pause_campaign"
    /\ response.status = 200
    /\ \E c \in CampaignIds :
          /\ campaigns[c].status = PAUSED
          /\ campaigns[c].paused_at # NULL
          /\ \E r \in RecipientIds :
                /\ recipients[r].campaign_id = c
                /\ recipients[r].status = PENDING
                /\ recipients[r].next_send_at # NULL

\* The recipient rows of campaign c in the table rows
MembersOf(rows, c) == {r \in DOMAIN rows : rows[r].campaign_id = c}

\* C26: once a campaign has left Draft, a step either deletes the campaign
\* or leaves the set of its recipient rows as it was.
C26_MembershipFixedAfterLaunch ==
    [][ \A c \in DOMAIN campaigns :
          campaigns[c].launched_at # NULL =>
             \/ c \notin DOMAIN campaigns'
             \/ MembersOf(recipients', c) = MembersOf(recipients, c) ]_vars

\* C27: at every time the recipients have tracking ids that differ from
\* one another, and no step changes the tracking id a recipient has.
C27_TrackingIdStableAndUnique ==
    /\ [](\A r1, r2 \in RecipientIds :
             r1 # r2 => recipients[r1].tracking_id # recipients[r2].tracking_id)
    /\ [][ \A r \in RecipientIds \cap DOMAIN recipients' :
              recipients[r].tracking_id # NULL
                 => recipients'[r].tracking_id = recipients[r].tracking_id ]_vars

\* Two recipients of a launched campaign, one of them already sent to, with
\* the tracking ids they were created with
C27_Witness ==
    /\ \E c \in CampaignIds : campaigns[c].launched_at # NULL
    /\ \E r1, r2 \in RecipientIds :
          /\ r1 # r2
          /\ recipients[r1].status = SENT
          /\ recipients[r2].status = PENDING
          /\ recipients[r1].tracking_id = r1
          /\ recipients[r2].tracking_id = r2

\* The rewrite logs of user_id created within the UTC day that starts at day
LogsOfDay(user_id, day) ==
    CountIn(rewrite_logs, {l \in BagToSet(rewrite_logs) :
                              l.user_id = user_id /\ today_start(l.created_at) = day})

\* C28: for every user and every UTC day, the rewrite logs created within
\* the day are at most the daily limit of the user's plan, whatever the
\* interleaving of the user's requests.
C28_DailyLimitNeverExceeded ==
    \A user_id \in UserIds : \A l \in BagToSet(rewrite_logs) :
        LogsOfDay(user_id, today_start(l.created_at)) <= get_daily_limit_for_user(user_id)

\* A step in which the dispatch task u ends after its account lookup or
\* after its provider call (lines 93-156)
DispatchEnds(u) ==
    /\ \/ \E outcome \in {"ok", "error"} : DispatchSend(u, outcome)
       \/ DispatchCommit(u)
    /\ units' = units (-) SetToBag({u})

\* C29: when a dispatch task ends, by its own return or by an exception, the
\* recipient it worked on is not left Pending and due with no error recorded.
C29_DispatchFailureIsRecorded ==
    [][ \A u \in SendUnits(units) :
          \/ ~DispatchEnds(u)
          \/ u.recipient_id \notin DOMAIN recipients'
          \/ ~IsDue(recipients'[u.recipient_id], now)
          \/ recipients'[u.recipient_id].error_message # NoError ]_vars

C32_OpenCountNoLostUpdate ==
    [][ \A r \in RecipientIds :
          /\ recipients'[r].open_count >= recipients[r].open_count
          /\ \A q \in BagToSet(requests) :
                \/ q.recipient_id # r
                \/ recipients'[r].open_count = recipients[r].open_count + 1
                \/ ~OpenCommit(q) ]_vars


\* C33: a campaign is launched at most once.  Of the launch requests that
\* overlap, only one performs Draft -> Running: every launch that commits
\* finds the campaign still in Draft; and each recipient is handed to the
\* dispatcher once, after the commit: the queue never holds two dispatch
\* tasks of one recipient, and tasks are queued only for a Running campaign.
C33_LaunchedAtMostOnce ==
    /\ [](\A r \in RecipientIds :
             BagCardinality([u \in {v \in BagToSet(units) :
                                      v.kind = "send" /\ v.recipient_id = r}
                               |-> units[u]]) <= 1)
    /\ [][ \A q \in BagToSet(requests) :
             /\ campaigns[q.campaign_id].status = DRAFT \/ ~LaunchCommitRunning(q)
             /\ campaigns[q.campaign_id].status = RUNNING \/ ~LaunchQueueTasks(q) ]_vars


\* C34: for every recipient current_step never decreases, never exceeds the
\* number of steps of its campaign, and equals the number of provider calls
\* made for the recipient that succeeded (a success whose dispatch task has
\* not committed yet is counted with the task).
C34_StepCountsSuccessfulSends ==
    /\ [](\A r \in RecipientIds :
            /\ recipients[r].current_step <= NumSteps(recipients[r].campaign_id)
            /\ recipients[r].current_step
                 + CountIn(units, {u \in SendUnits(units) :
                                      /\ u.recipient_id = r /\ u.pc = "inflight"
                                      /\ u.send_result.success})
               = provider_log[r][1].ok + provider_log[r][2].ok)
    /\ [][ \A r \in RecipientIds :
              recipients'[r].current_step >= recipients[r].current_step ]_vars


\* C35: a recipient whose status is Sent has been sent at least one step and
\* carries the time of the send: no operation puts a recipient that was never
\* sent into Sent.
C35_SentImpliesSentOnce ==
    \A r \in RecipientIds :
        recipients[r].status = SENT =>
            /\ recipients[r].current_step >= 1
            /\ recipients[r].last_sent_at # NULL


\* C36: the status of a campaign only moves Draft -> Running and
\* Running -> Paused (so nothing returns a Paused campaign to Running and
\* nothing produces Completed or Cancelled); a campaign that has left Draft
\* is neither deleted nor updated; and no dispatch task passes the campaign
\* check of a Paused campaign, so its armed recipients are sent nothing more.
C36_StatusMovesForwardOnly ==
    [][ \A c \in DOMAIN campaigns :
          /\ campaigns[c].status # DRAFT =>
                /\ c \in DOMAIN campaigns'
                /\ campaigns'[c].name = campaigns[c].name
          /\ c \in DOMAIN campaigns' =>
                /\ \/ campaigns'[c].status = campaigns[c].status
                   \/ campaigns[c].status = DRAFT /\ campaigns'[c].status = RUNNING
                   \/ campaigns[c].status = RUNNING /\ campaigns'[c].status = PAUSED
                /\ (campaigns[c].status = PAUSED /\ PastCampaignCheck(units, c) = {})
                      => PastCampaignCheck(units', c) = {} ]_vars


C38_RoutedByProviderKind ==
    [][ \A u \in BagToSet(units) :
          /\ \A outcome \in {"ok", "error"} :
                \/ u.kind # "send" \/ u.pc # "checked"
                \/ u.recipient_id \notin RecipientIds
                \/ StepsNumbered(u.recipient.campaign_id, u.recipient.current_step + 1) = {}
                \/ Cardinality(DefaultAccounts(campaigns[u.recipient.campaign_id].user_id)) # 1
                \/ LET account == CHOOSE a \in DefaultAccounts(
                                      campaigns[u.recipient.campaign_id].user_id) : TRUE
                       expected ==
                          CASE account.provider = "brevo" ->
                                 send_via_brevo(outcome, TotalOk + 1)
                            [] account.provider \in {"gmail", "outlook"} ->
                                 [success |-> FALSE, message_id |-> NULL, error |-> ErrNotImpl]
                            [] OTHER ->
                                 send_email(account, outcome, TotalOk + 1)
                   IN \E v \in BagToSet(units') :
                         /\ v.recipient_id = u.recipient_id /\ v.pc = "inflight"
                         /\ v.send_result = expected
                \/ ~DispatchSend(u, outcome)
          /\ \/ u.kind # "send" \/ u.pc # "inflight"
             \/ u.send_result.error # ErrNotImpl
             \/ recipients'[u.recipient_id].status = FAILED
             \/ ~DispatchCommit(u) ]_vars


====
